---- MODULE Spec2Model ----
(***************************************************************************)
(* Model of the knowledge-graph construction pipeline of graph-llm:        *)
(*   - KnowledgeExtractor.extract   (src/core/extractor.py)                *)
(*   - split_pdf_to_chunks          (src/core/data_loader.py)              *)
(*   - Standardizer                 (src/core/standardizer.py)             *)
(*   - main and GraphBuilder        (src/main.py,                          *)
(*                                   src/database/graph_builder.py)        *)
(* Strings are sequences of one-character strings so that lower(), strip() *)
(* slicing, rfind() and substring tests are computed, not assumed.         *)
(***************************************************************************)
EXTENDS Integers, Sequences, FiniteSets, TLC

VARIABLES
    \* KnowledgeExtractor.extract, one invocation at a time
    pc,             \* "idle" | "await1" | "await2" | "done"
    resp1,          \* outcome of the Phase 1 request (NoResponse before it arrives)
    resp2,          \* outcome of the Phase 2 request
    calls,          \* log of model-call events of the current invocation
    entity_data,    \* what _call_llm returned for Phase 1
    relation_data,  \* what _call_llm returned for Phase 2
    result,         \* outcome of extract: returned pair or raised exception
    \* split_pdf_to_chunks
    all_text,       \* text extracted from the PDF pages (before strip)
    max_chunk_chars,
    chunks,         \* the returned list
    cpc,            \* "start" | "done"
    \* Standardizer
    ontology,       \* [node_labels, standardization_map]
    std_op,         \* last operation applied: "none" | "name" | "standardize"
    std_arg,        \* argument of get_standard_name
    std_name,       \* get_standard_name(std_arg)
    std_name2,      \* get_standard_name(std_name)
    in_entities,    \* entity list given to standardize
    in_triples,     \* raw triple list given to standardize
    standardized_triples,
    \* main and GraphBuilder
    n_docs,         \* len(all_texts)
    doc,            \* position of the current document in all_texts (0 before the loop)
    n_chunks,       \* extractions the current document needs
    chunk_i,        \* extractions of the current document that returned
    all_entities,
    all_triples,
    main_triples,   \* main's local standardized_triples
    mpc,            \* "next_doc" | "extract" | "clear" | "write" | "finished"
    driver,         \* TRUE iff GraphBuilder.driver is not None
    store,          \* the triples held by the graph store
    last_written,   \* the triples of the last write that succeeded
    run_log         \* extractor and graph-store calls of the run, in order

vars == << pc, resp1, resp2, calls, entity_data, relation_data, result,
           all_text, max_chunk_chars, chunks, cpc,
           ontology, std_op, std_arg, std_name, std_name2,
           in_entities, in_triples, standardized_triples,
           n_docs, doc, n_chunks, chunk_i, all_entities, all_triples,
           main_triples, mpc, driver, store, last_written, run_log >>

extractVars == << pc, resp1, resp2, calls, entity_data, relation_data, result >>
chunkVars   == << all_text, max_chunk_chars, chunks, cpc >>
stdVars     == << ontology, std_op, std_arg, std_name, std_name2,
                  in_entities, in_triples, standardized_triples >>
mainVars    == << n_docs, doc, n_chunks, chunk_i, all_entities, all_triples,
                  main_triples, mpc, driver, store, last_written, run_log >>

----------------------------------------------------------------------------
(* Generic helpers *)

SeqsUpTo(S, n) == UNION { [1..k -> S] : k \in 0..n }

Max2(a, b) == IF a >= b THEN a ELSE b

\* Python slice s[i:j] with 0-based, end-exclusive, clamped indices.
Slice(s, i, j) ==
    LET hi == IF j > Len(s) THEN Len(s) ELSE j
    IN  IF i >= hi THEN << >> ELSE [k \in 1..(hi - i) |-> s[i + k]]

\* Python `needle in haystack` for two strings.
IsSubstr(needle, hay) ==
    \E i \in 0..(Len(hay) - Len(needle)) : Slice(hay, i, i + Len(needle)) = needle

----------------------------------------------------------------------------
(* String primitives used by the chunker and the standardizer *)

\* A character is a string: itself for ASCII, a name for the others.
NL == "\n"
FullStop == "fw."   \* the full-width period U+3002

IsSpace(c) == c \in { " ", NL, "\t" }

UpperToLower ==
    [ A |-> "a", B |-> "b", C |-> "c", D |-> "d", E |-> "e", F |-> "f", G |-> "g",
      H |-> "h", I |-> "i", J |-> "j", K |-> "k", L |-> "l", M |-> "m", N |-> "n",
      O |-> "o", P |-> "p", Q |-> "q", R |-> "r", S |-> "s", T |-> "t", U |-> "u",
      V |-> "v", W |-> "w", X |-> "x", Y |-> "y", Z |-> "z" ]

\* str.lower(), character by character; characters without case are kept.
LowerChar(c) == IF c \in DOMAIN UpperToLower THEN UpperToLower[c] ELSE c
Lower(str)   == [i \in DOMAIN str |-> LowerChar(str[i])]

\* str.lstrip() / str.strip()
RECURSIVE LStrip(_)
LStrip(str) ==
    IF str # << >> /\ IsSpace(Head(str)) THEN LStrip(Tail(str)) ELSE str

RECURSIVE RStrip(_)
RStrip(str) ==
    IF str # << >> /\ IsSpace(str[Len(str)])
        THEN RStrip(SubSeq(str, 1, Len(str) - 1)) ELSE str

Strip(str) == RStrip(LStrip(str))

\* str.rfind(needle): highest 0-based index of an occurrence, or -1.
RFind(str, needle) ==
    LET occ == { i \in 0..(Len(str) - Len(needle)) :
                   Slice(str, i, i + Len(needle)) = needle }
    IN  IF occ = {} THEN -1 ELSE CHOOSE i \in occ : \A j \in occ : j <= i

\* 0-based index of the first newline at or after position from, or -1.
FirstNewline(str, from) ==
    LET occ == { i \in from..(Len(str) - 1) : str[i + 1] = NL }
    IN  IF occ = {} THEN -1 ELSE CHOOSE i \in occ : \A j \in occ : i <= j

----------------------------------------------------------------------------
(* split_pdf_to_chunks *)

\* Break points closer than this to the end of the max_chunk_chars prefix are ignored.
MinTail == 20

Digits == { "0", "1", "2", "3", "4", "5", "6", "7", "8", "9" }
RomanDigits == { "i", "v", "x" }

Keywords ==
    { << "a", "b", "s", "t", "r", "a", "c", "t" >>,
      << "i", "n", "t", "r", "o", "d", "u", "c", "t", "i", "o", "n" >>,
      << "c", "o", "n", "c", "l", "u", "s", "i", "o", "n" >>,
      << "zh_can", "zh_kao", "zh_wen", "zh_xian" >>,   \* "references" in Chinese
      << "zh_zhi", "zh_xie" >>,                        \* "acknowledgements" in Chinese
      << "a", "c", "k", "n", "o", "w", "l", "e", "d", "g", "e", "m", "e", "n", "t", "s" >>,
      << "r", "e", "s", "u", "l", "t", "s" >>,
      << "d", "i", "s", "c", "u", "s", "s", "i", "o", "n" >>,
      << "m", "e", "t", "h", "o", "d", "s" >>,
      << "m", "a", "t", "e", "r", "i", "a", "l", "s" >>,
      << "e", "x", "p", "e", "r", "i", "m", "e", "n", "t", "a", "l" >>,
      << "t", "a", "b", "l", "e" >>,
      << "f", "i", "g", "u", "r", "e" >> }

\* One or more characters of class cls starting at 0-based q, followed by a period.
RunThenDot(str, q, cls) ==
    \E k \in 1..(Len(str) - q - 1) :
        /\ \A j \in 1..k : LowerChar(str[q + j]) \in cls
        /\ str[q + k + 1] = "."

\* (\d+\.\d*|[IVX]+\.|Abstract|...|Figure) matches at 0-based q, ignoring case.
HeadingWordAt(str, q) ==
    \/ RunThenDot(str, q, Digits)
    \/ RunThenDot(str, q, RomanDigits)
    \/ \E kw \in Keywords : Lower(Slice(str, q, q + Len(kw))) = kw

\* End (exclusive) of a match of section_pattern starting at 0-based p, or -1.
\* `^` matches at 0 only (no MULTILINE); [^\n]*\n runs to the first newline.
HeadingEnd(str, p) ==
    LET q == IF p = 0 /\ HeadingWordAt(str, 0) THEN 0
             ELSE IF p < Len(str) /\ str[p + 1] = NL /\ HeadingWordAt(str, p + 1)
                  THEN p + 1
             ELSE -1
        nl == IF q = -1 THEN -1 ELSE FirstNewline(str, q)
    IN  IF nl = -1 THEN -1 ELSE nl + 1

\* [m.start() for m in section_pattern.finditer(str)], searching from pos.
RECURSIVE HeadingStarts(_, _)
HeadingStarts(str, pos) ==
    LET starts == { p \in pos..(Len(str) - 1) : HeadingEnd(str, p) # -1 }
    IN  IF starts = {} THEN << >>
        ELSE LET p == CHOOSE x \in starts : \A y \in starts : x <= y
             IN  << p >> \o HeadingStarts(str, HeadingEnd(str, p))

\* re.split(r'\n{2,}', str)
RECURSIVE SplitParas(_)
SplitParas(str) ==
    LET brk == { i \in 1..(Len(str) - 1) : str[i] = NL /\ str[i + 1] = NL }
    IN  IF brk = {} THEN << str >>
        ELSE LET i    == CHOOSE x \in brk : \A y \in brk : x <= y
                 rest == SubSeq(str, i, Len(str))
                 run  == CHOOSE n \in 2..Len(rest) :
                            /\ \A j \in 1..n : rest[j] = NL
                            /\ (n = Len(rest) \/ rest[n + 1] # NL)
             IN  << SubSeq(str, 1, i - 1) >> \o SplitParas(SubSeq(rest, run + 1, Len(rest)))

\* SubChunk cutting one character too many (para[:max_chunk_chars + 1]).
SubChunk_OffByOne(para, max) ==
    LET sub_chunk  == Slice(para, 0, max + 1)
        last_break == Max2(Max2(RFind(sub_chunk, << FullStop >>),
                                RFind(sub_chunk, << ".", " " >>)),
                           RFind(sub_chunk, << NL >>))
    IN  IF 0 < last_break /\ last_break < Len(sub_chunk) - MinTail
            THEN Slice(sub_chunk, 0, last_break + 1)
            ELSE sub_chunk

\* The sub_chunk cut off an over-long paragraph (lines 95-98).
SubChunk(para, max) ==
    LET sub_chunk  == Slice(para, 0, max)
        last_break == Max2(Max2(RFind(sub_chunk, << FullStop >>),
                                RFind(sub_chunk, << ".", " " >>)),
                           RFind(sub_chunk, << NL >>))
    IN  IF 0 < last_break /\ last_break < Len(sub_chunk) - MinTail
            THEN Slice(sub_chunk, 0, last_break + 1)
            ELSE sub_chunk

\* The while loop over one paragraph and the trailing `if para` (lines 94-102).
RECURSIVE ParaChunks(_, _)
ParaChunks(para, max) ==
    IF Len(para) > max
        THEN LET sub_chunk == SubChunk(para, max)
             IN  << sub_chunk >>
                 \o ParaChunks(LStrip(Slice(para, Len(sub_chunk), Len(para))), max)
    ELSE IF para # << >> THEN << para >>
    ELSE << >>

\* The loop over the paragraphs of an over-long segment (lines 88-102).
RECURSIVE ParasChunks(_, _)
ParasChunks(paras, max) ==
    IF paras = << >> THEN << >>
    ELSE LET para == Strip(Head(paras))
         IN  (IF para = << >> THEN << >> ELSE ParaChunks(para, max))
             \o ParasChunks(Tail(paras), max)

\* The loop over the coarse segments (lines 82-104).
RECURSIVE SegmentChunks(_, _, _, _)
SegmentChunks(str, splits, i, max) ==
    IF i >= Len(splits) THEN << >>
    ELSE LET chunk == Strip(Slice(str, splits[i], splits[i + 1]))
         IN  (IF chunk = << >> THEN << >>
              ELSE IF Len(chunk) > max THEN ParasChunks(SplitParas(chunk), max)
              ELSE << chunk >>)
             \o SegmentChunks(str, splits, i + 1, max)

\* split_pdf_to_chunks on the concatenated page text.
split_pdf_to_chunks(page_text, max) ==
    LET str    == Strip(page_text)
        splits == HeadingStarts(str, 0) \o << Len(str) >>
    IN  SelectSeq(SegmentChunks(str, splits, 1, max), LAMBDA c : Strip(c) # << >>)

----------------------------------------------------------------------------
(* Inputs and specification of the chunker *)

\* Longest page text enumerated exhaustively, and largest max_chunk_chars for it.
MaxTextLen == 6
MaxChars == 3

ShortAlphabet == { "a", "1", ".", " ", NL }

Rep(c, n) == [i \in 1..n |-> c]

\* Over-long paragraphs under a heading, with one candidate break point at
\* different distances from the cut, so that the sentence-break rule applies.
LongTexts ==
    { << "1", ".", NL >> \o Rep("a", k) \o brk \o Rep("b", MinTail + 2) :
        k \in { 0, 1, 2, 3 },
        brk \in { << ".", " " >>, << FullStop >>, << NL >>, << " " >>, << ".", "c" >> } }
    \cup { << "T", "a", "b", "l", "e", " ", "1", NL >> \o Rep("a", MinTail + 3),
           << "I", "v", ".", NL >> \o Rep("a", MinTail) \o << NL, NL >> \o Rep("b", 3),
           Rep("a", 3) \o << NL, "2", ".", "1", " ", "x", NL >> \o Rep("b", MinTail + 4) }

\* Over-long paragraphs under a heading whose only sentence-ending marker
\* past the heading line has MinTail or more characters before it.
LateBreakTexts ==
    { << "1", ".", NL >> \o Rep("a", k) \o brk \o Rep("b", MinTail + 2) :
        k \in { MinTail - 3, MinTail - 2 },
        brk \in { << ".", " " >>, << FullStop >>, << NL >> } }

ChunkInputs ==
    { << txt, m >> : txt \in SeqsUpTo(ShortAlphabet, MaxTextLen), m \in 1..MaxChars }
    \cup { << txt, m >> : txt \in LongTexts \cup LateBreakTexts,
                          m \in (MinTail + 2)..(MinTail + 5) }

ChunkInit ==
    /\ \E inp \in ChunkInputs :
          /\ all_text = inp[1]
          /\ max_chunk_chars = inp[2]
    /\ chunks = << >>
    /\ cpc = "start"

\* One call of split_pdf_to_chunks on the document.
SplitDocument ==
    /\ cpc = "start"
    /\ chunks' = split_pdf_to_chunks(all_text, max_chunk_chars)
    /\ cpc' = "done"
    /\ UNCHANGED << all_text, max_chunk_chars >>

----------------------------------------------------------------------------
(* Standardizer *)

INCREASES_PROPERTY == << "I", "N", "C", "R", "E", "A", "S", "E", "S", "_", "P", "R", "O", "P", "E", "R", "T", "Y" >>
DECREASES_PROPERTY == << "D", "E", "C", "R", "E", "A", "S", "E", "S", "_", "P", "R", "O", "P", "E", "R", "T", "Y" >>
NO_EFFECT_ON == << "N", "O", "_", "E", "F", "F", "E", "C", "T", "_", "O", "N" >>

\* The dict literal as its <<key, value>> items.
RELATION_STANDARD_MAP ==
    << 
       << << "zh_ti", "zh_sheng" >>,
          INCREASES_PROPERTY >>,
       << << "zh_zeng", "zh_qiang" >>,
          INCREASES_PROPERTY >>,
       << << "i", "n", "c", "r", "e", "a", "s", "e" >>,
          INCREASES_PROPERTY >>,
       << << "i", "m", "p", "r", "o", "v", "e" >>,
          INCREASES_PROPERTY >>,
       << << "i", "m", "p", "r", "o", "v", "e", "s" >>,
          INCREASES_PROPERTY >>,
       << << "e", "n", "h", "a", "n", "c", "e" >>,
          INCREASES_PROPERTY >>,
       << << "e", "n", "h", "a", "n", "c", "e", "s" >>,
          INCREASES_PROPERTY >>,
       << << "zh_jiang", "zh_di" >>,
          DECREASES_PROPERTY >>,
       << << "zh_jian", "zh_ruo" >>,
          DECREASES_PROPERTY >>,
       << << "d", "e", "c", "r", "e", "a", "s", "e" >>,
          DECREASES_PROPERTY >>,
       << << "r", "e", "d", "u", "c", "e" >>,
          DECREASES_PROPERTY >>,
       << << "r", "e", "d", "u", "c", "e", "s" >>,
          DECREASES_PROPERTY >>,
       << << "d", "i", "m", "i", "n", "i", "s", "h" >>,
          DECREASES_PROPERTY >>,
       << << "d", "i", "m", "i", "n", "i", "s", "h", "e", "s" >>,
          DECREASES_PROPERTY >>,
       << << "zh_wu", "zh_ying", "zh_xiang" >>,
          NO_EFFECT_ON >>,
       << << "n", "o", " ", "e", "f", "f", "e", "c", "t" >>,
          NO_EFFECT_ON >>,
       << << "n", "o", "t", " ", "a", "f", "f", "e", "c", "t" >>,
          NO_EFFECT_ON >>,
       << << "d", "o", "e", "s", " ", "n", "o", "t", " ", "a", "f", "f", "e", "c", "t" >>,
          NO_EFFECT_ON >> >>

\* dict assignment d[k] = v
Put(d, k, v) == [x \in (DOMAIN d) \cup {k} |-> IF x = k THEN v ELSE d[x]]

EmptyDict == [x \in {} |-> << >>]

\* AddSynonyms storing the synonym as written (no .lower() on the key).
RECURSIVE AddSynonyms_NoLower(_, _, _)
AddSynonyms_NoLower(reverse_map, standard_name, synonyms) ==
    IF synonyms = << >> THEN reverse_map
    ELSE AddSynonyms_NoLower(Put(reverse_map, Head(synonyms), standard_name),
                             standard_name, Tail(synonyms))

\* The inner loop of _create_reverse_map over one entry's synonyms.
RECURSIVE AddSynonyms(_, _, _)
AddSynonyms(reverse_map, standard_name, synonyms) ==
    IF synonyms = << >> THEN reverse_map
    ELSE AddSynonyms(Put(reverse_map, Lower(Head(synonyms)), standard_name),
                     standard_name, Tail(synonyms))

\* _create_reverse_map over the items of standardization_map, in dict order.
RECURSIVE create_reverse_map(_, _)
create_reverse_map(reverse_map, entries) ==
    IF entries = << >> THEN reverse_map
    ELSE create_reverse_map(AddSynonyms(reverse_map, Head(entries)[1], Head(entries)[2]),
                            Tail(entries))

\* self.standardization_map of a Standardizer built from ont.
ReverseMap(ont) == create_reverse_map(EmptyDict, ont.standardization_map)

\* get_standard_name falling back to the lower-cased name instead of the name.
get_standard_name_LowerFallback(ont, name) ==
    LET reverse_map == ReverseMap(ont)
    IN  IF Lower(name) \in DOMAIN reverse_map THEN reverse_map[Lower(name)]
        ELSE Lower(name)

\* get_standard_name: self.standardization_map.get(name.lower(), name)
get_standard_name(ont, name) ==
    LET reverse_map == ReverseMap(ont)
    IN  IF Lower(name) \in DOMAIN reverse_map THEN reverse_map[Lower(name)] ELSE name

\* standardize_relation: RELATION_STANDARD_MAP.get(relation.lower().strip(), relation)
standardize_relation(relation) ==
    LET r   == Strip(Lower(relation))
        hit == { i \in DOMAIN RELATION_STANDARD_MAP : RELATION_STANDARD_MAP[i][1] = r }
    IN  IF hit = {} THEN relation
        ELSE RELATION_STANDARD_MAP[CHOOSE i \in hit : TRUE][2]

\* A raw triple: the keys present and their values (None is an absent key).
\* triple.get(k) is falsy when the key is absent or its value is "".
TripleGetFalsy(triple, k) == k \notin triple.keys \/ triple[k] = << >>

\* entity_type_map = {get_standard_name(e['name']): e['type'] for e in entities}
RECURSIVE EntityTypeMap(_, _, _)
EntityTypeMap(ont, d, entities) ==
    IF entities = << >> THEN d
    ELSE EntityTypeMap(ont,
                       Put(d, get_standard_name(ont, Head(entities).name), Head(entities).type),
                       Tail(entities))

\* entity_name_map = {e['name']: get_standard_name(e['name']) for e in entities}
RECURSIVE EntityNameMap(_, _, _)
EntityNameMap(ont, d, entities) ==
    IF entities = << >> THEN d
    ELSE EntityNameMap(ont,
                       Put(d, Head(entities).name, get_standard_name(ont, Head(entities).name)),
                       Tail(entities))

\* d.get(k) for the type map: "" stands for None (both are falsy at line 90).
TypeOf(entity_type_map, name) ==
    IF name \in DOMAIN entity_type_map THEN entity_type_map[name] ELSE ""

\* StandardizeOne testing subject and object only (relation not required).
StandardizeOne_NoRelationCheck(ont, entity_type_map, entity_name_map, triple) ==
    IF \/ TripleGetFalsy(triple, "subject")
       \/ TripleGetFalsy(triple, "object")
        THEN << >>
    ELSE LET subject_std == IF triple.subject \in DOMAIN entity_name_map
                               THEN entity_name_map[triple.subject]
                               ELSE get_standard_name(ont, triple.subject)
             object_std  == IF triple.object \in DOMAIN entity_name_map
                               THEN entity_name_map[triple.object]
                               ELSE get_standard_name(ont, triple.object)
             subject_type == TypeOf(entity_type_map, subject_std)
             object_type  == TypeOf(entity_type_map, object_std)
         IN  IF subject_type = "" \/ object_type = "" THEN << >>
             ELSE << [ subject  |-> [name |-> subject_std, type |-> subject_type],
                       object   |-> [name |-> object_std,  type |-> object_type],
                       relation |-> standardize_relation(triple.relation) ] >>

\* The body of the loop over triples (lines 76-100): the triples appended.
StandardizeOne(ont, entity_type_map, entity_name_map, triple) ==
    IF \/ TripleGetFalsy(triple, "subject")
       \/ TripleGetFalsy(triple, "object")
       \/ TripleGetFalsy(triple, "relation")
        THEN << >>
    ELSE LET subject_std == IF triple.subject \in DOMAIN entity_name_map
                               THEN entity_name_map[triple.subject]
                               ELSE get_standard_name(ont, triple.subject)
             object_std  == IF triple.object \in DOMAIN entity_name_map
                               THEN entity_name_map[triple.object]
                               ELSE get_standard_name(ont, triple.object)
             subject_type == TypeOf(entity_type_map, subject_std)
             object_type  == TypeOf(entity_type_map, object_std)
         IN  IF subject_type = "" \/ object_type = "" THEN << >>
             ELSE << [ subject  |-> [name |-> subject_std, type |-> subject_type],
                       object   |-> [name |-> object_std,  type |-> object_type],
                       relation |-> standardize_relation(triple.relation) ] >>

RECURSIVE StandardizeLoop(_, _, _, _)
StandardizeLoop(ont, entity_type_map, entity_name_map, triples) ==
    IF triples = << >> THEN << >>
    ELSE StandardizeOne(ont, entity_type_map, entity_name_map, Head(triples))
         \o StandardizeLoop(ont, entity_type_map, entity_name_map, Tail(triples))

\* Standardizer.standardize
standardize(ont, entities, triples) ==
    StandardizeLoop(ont,
                    EntityTypeMap(ont, [x \in {} |-> ""], entities),
                    EntityNameMap(ont, EmptyDict, entities),
                    triples)

----------------------------------------------------------------------------
(* Inputs and specifications of the Standardizer *)

\* Most canonical names in standardization_map, most synonyms under one of them.
MaxCanon == 2
MaxSyn == 1

Names == { << "a" >>, << "A" >>, << "b" >>, << "B" >> }

NodeLabels == { "AluminumAlloy", "MechanicalProperty" }

\* standardization_map as the items of the dict, in order; keys are distinct.
Maps ==
    { m \in SeqsUpTo(Names \X SeqsUpTo(Names, MaxSyn), MaxCanon) :
        \A i, j \in DOMAIN m : i # j => m[i][1] # m[j][1] }

Ontologies == { [node_labels |-> NodeLabels, standardization_map |-> m] : m \in Maps }

StdFresh ==
    /\ std_op = "none"
    /\ std_arg = << >>
    /\ std_name = << >>
    /\ std_name2 = << >>
    /\ in_entities = << >>
    /\ in_triples = << >>
    /\ standardized_triples = << >>

NameInit == ontology \in Ontologies /\ StdFresh

\* A caller looks a name up, and looks the answer up again.
GetStandardName(name) ==
    /\ std_op = "none"
    /\ std_op' = "name"
    /\ std_arg' = name
    /\ std_name' = get_standard_name(ontology, name)
    /\ std_name2' = get_standard_name(ontology, get_standard_name(ontology, name))
    /\ UNCHANGED << ontology, in_entities, in_triples, standardized_triples >>

\* Most entities and most raw triples handed to one standardize call.
MaxEntities == 2
MaxTriples == 2

Entity(n, ty) == [name |-> n, type |-> ty]

EntityPool ==
    { Entity(<< "a" >>, "AluminumAlloy"),
      Entity(<< "A" >>, "MechanicalProperty"),
      Entity(<< "b" >>, "MechanicalProperty"),
      Entity(<< "b" >>, ""),
      Entity(<< "c" >>, "Alien") }

RawTriple(ks, sub, rel, obj) ==
    [keys |-> ks, subject |-> sub, relation |-> rel, object |-> obj]

AllKeys == { "subject", "relation", "object" }
SomeRelation == << "U", "S", "E", "S" >>
MappedRelation == << " ", "I", "n", "c", "r", "e", "a", "s", "e", " " >>

TriplePool ==
    { RawTriple(AllKeys, pr[1], SomeRelation, pr[2]) :
        pr \in { << << "a" >>, << "b" >> >>, << << "a" >>, << "c" >> >>,
                 << << "c" >>, << "c" >> >>, << << "d" >>, << "a" >> >> } }
    \cup { RawTriple(AllKeys, << "a" >>, MappedRelation, << "a" >>),
           RawTriple(AllKeys \ { "subject" }, << >>, SomeRelation, << "a" >>),
           RawTriple(AllKeys, << "a" >>, << >>, << "a" >>),
           RawTriple(AllKeys \ { "relation" }, << "c" >>, << >>, << "c" >>),
           RawTriple(AllKeys, << "c" >>, SomeRelation, << >>),
           RawTriple(AllKeys \ { "object" }, << "a" >>, SomeRelation, << >>) }

\* Ontologies for standardize: no synonyms; case folding onto two canonical
\* names; two canonical names listed as each other's synonym.
StdOntologies ==
    { [node_labels |-> NodeLabels, standardization_map |-> m] :
        m \in { << >>,
                << << << "A" >>, << << "a" >> >> >>, << << "B" >>, << << "b" >> >> >> >>,
                << << << "A" >>, << << "b" >> >> >>, << << "B" >>, << << "a" >> >> >> >> } }

StdInit == ontology \in StdOntologies /\ StdFresh

\* One call of standardize on a document's accumulated entities and triples.
Standardize(entities, triples) ==
    /\ std_op = "none"
    /\ std_op' = "standardize"
    /\ in_entities' = entities
    /\ in_triples' = triples
    /\ standardized_triples' = standardize(ontology, entities, triples)
    /\ UNCHANGED << ontology, std_arg, std_name, std_name2 >>

----------------------------------------------------------------------------
(* JSON values as json.loads produces them *)

EntitiesKey == << "e", "n", "t", "i", "t", "i", "e", "s" >>
TriplesKey  == << "t", "r", "i", "p", "l", "e", "s" >>
OtherKey    == << "x" >>

\* Largest number of elements of an 'entities' / 'triples' array.
MaxItems == 2

Items == { "i1", "i2" }

JNull    == [t |-> "null", n |-> 0, s |-> << >>, a |-> << >>, o |-> << >>]
JBool(b) == [t |-> "bool", n |-> IF b THEN 1 ELSE 0, s |-> << >>, a |-> << >>, o |-> << >>]
JNum(k)  == [t |-> "num",  n |-> k, s |-> << >>, a |-> << >>, o |-> << >>]
JStr(str) == [t |-> "str", n |-> 0, s |-> str,   a |-> << >>, o |-> << >>]
JArr(xs) == [t |-> "arr",  n |-> 0, s |-> << >>, a |-> xs,    o |-> << >>]
\* An object is the sequence of its <<key, value>> members in text order.
JObj(ms) == [t |-> "obj",  n |-> 0, s |-> << >>, a |-> << >>, o |-> ms]

\* Values found under a key of a response object.
ItemLists == SeqsUpTo(Items, MaxItems)
MemberValues ==
    { [t |-> "arr", items |-> xs] : xs \in ItemLists }
    \cup { [t |-> k, items |-> << >>] : k \in {"null", "str", "num", "obj"} }

JsonValues ==
    { JNull, JBool(TRUE), JBool(FALSE), JNum(0), JNum(5) }
    \cup { JStr(x) : x \in { << >>, OtherKey, EntitiesKey, TriplesKey,
                             OtherKey \o EntitiesKey, TriplesKey \o OtherKey } }
    \cup { JArr(x) : x \in { << >>, << OtherKey >>, << EntitiesKey >>,
                             << OtherKey, TriplesKey >> } }
    \cup { JObj(<< >>) }
    \cup { JObj(<< << k, v >> >>) :
             k \in { EntitiesKey, TriplesKey, OtherKey }, v \in MemberValues }
    \cup { JObj(<< << EntitiesKey, v >>, << TriplesKey, w >> >>) :
             v \in MemberValues, w \in { [t |-> "arr", items |-> << "i1" >>],
                                         [t |-> "str", items |-> << >>] } }

\* Outcomes of client.chat.completions.create + json.loads.
Responses ==
    { [kind |-> k, v |-> JNull] :
        k \in { "api_error", "timeout", "not_json", "no_content", "exception" } }
    \cup { [kind |-> "json", v |-> v] : v \in JsonValues }

NoResponse == [kind |-> "none", v |-> JNull]

\* _call_llm: the parsed JSON value, or None on any exception.
call_llm(resp) == IF resp.kind = "json" THEN resp.v ELSE JNull

\* Python truth value (`not x` is its negation).
Truthy(v) ==
    CASE v.t = "null" -> FALSE
      [] v.t = "bool" -> v.n = 1
      [] v.t = "num"  -> v.n # 0
      [] v.t = "str"  -> v.s # << >>
      [] v.t = "arr"  -> v.a # << >>
      [] v.t = "obj"  -> v.o # << >>

\* `key in v` is defined for str, list and dict only.
InRaises(v) == v.t \in { "null", "bool", "num" }
Contains(key, v) ==
    CASE v.t = "str" -> IsSubstr(key, v.s)
      [] v.t = "arr" -> \E i \in DOMAIN v.a : v.a[i] = key
      [] v.t = "obj" -> \E i \in DOMAIN v.o : v.o[i][1] = key
      [] OTHER -> FALSE

\* `v[key]` with a str key is defined for dict only; duplicate members: last wins.
GetItemRaises(v) == v.t # "obj"
GetItem(v, key) ==
    LET idx == { i \in DOMAIN v.o : v.o[i][1] = key }
        last == CHOOSE i \in idx : \A j \in idx : j <= i
    IN  v.o[last][2]

\* not data or key not in data or not isinstance(data[key], list)
\* evaluated left to right with short-circuit: "invalid", "valid" or "TypeError".
ShapeCheck(data, key) ==
    IF ~Truthy(data) THEN "invalid"
    ELSE IF InRaises(data) THEN "TypeError"
    ELSE IF ~Contains(key, data) THEN "invalid"
    ELSE IF GetItemRaises(data) THEN "TypeError"
    ELSE IF GetItem(data, key).t # "arr" THEN "invalid"
    ELSE "valid"

Returned(es, ts) == [kind |-> "returned", entities |-> es, triples |-> ts]
Raised           == [kind |-> "raised",   entities |-> << >>, triples |-> << >>]
NoResult         == [kind |-> "none",     entities |-> << >>, triples |-> << >>]

----------------------------------------------------------------------------
(* KnowledgeExtractor.extract *)

ExtractInit ==
    /\ pc = "idle"
    /\ resp1 = NoResponse
    /\ resp2 = NoResponse
    /\ calls = << >>
    /\ entity_data = JNull
    /\ relation_data = JNull
    /\ result = NoResult

\* extract is entered (first time, or again by the caller for the next chunk
\* or document) and the Phase 1 request is sent.
ExtractStart ==
    /\ pc \in { "idle", "done" }
    /\ pc' = "await1"
    /\ resp1' = NoResponse
    /\ resp2' = NoResponse
    /\ calls' = << "call1" >>
    /\ entity_data' = JNull
    /\ relation_data' = JNull
    /\ result' = NoResult

\* Phase1Return without the `if not entities` test of lines 150-152.
Phase1Return_NoEmptyCheck(resp) ==
    /\ pc = "await1"
    /\ LET data  == call_llm(resp)
           shape == ShapeCheck(data, EntitiesKey)
       IN  /\ resp1' = resp
           /\ resp2' = resp2
           /\ entity_data' = data
           /\ relation_data' = relation_data
           /\ IF shape = "TypeError"
                 THEN /\ result' = Raised
                      /\ pc' = "done"
                      /\ calls' = Append(calls, "ret1")
              ELSE IF shape = "invalid"
                 THEN /\ result' = Returned(<< >>, << >>)
                      /\ pc' = "done"
                      /\ calls' = Append(calls, "ret1")
              ELSE    /\ result' = result
                      /\ pc' = "await2"
                      /\ calls' = calls \o << "ret1", "call2" >>

\* Phase 1 response arrives; the shape test runs; Phase 2 request is sent if it passes.
Phase1Return(resp) ==
    /\ pc = "await1"
    /\ LET data  == call_llm(resp)
           shape == ShapeCheck(data, EntitiesKey)
       IN  /\ resp1' = resp
           /\ resp2' = resp2
           /\ entity_data' = data
           /\ relation_data' = relation_data
           /\ IF shape = "TypeError"
                 THEN /\ result' = Raised
                      /\ pc' = "done"
                      /\ calls' = Append(calls, "ret1")
              ELSE IF shape = "invalid"
                 THEN /\ result' = Returned(<< >>, << >>)
                      /\ pc' = "done"
                      /\ calls' = Append(calls, "ret1")
              ELSE IF GetItem(data, EntitiesKey).items = << >>
                 THEN /\ result' = Returned(<< >>, << >>)
                      /\ pc' = "done"
                      /\ calls' = Append(calls, "ret1")
              ELSE    /\ result' = result
                      /\ pc' = "await2"
                      /\ calls' = calls \o << "ret1", "call2" >>

\* Phase 2 response arrives; extract returns.
Phase2Return(resp) ==
    /\ pc = "await2"
    /\ LET entities == GetItem(entity_data, EntitiesKey).items
           data     == call_llm(resp)
           shape    == ShapeCheck(data, TriplesKey)
       IN  /\ resp2' = resp
           /\ resp1' = resp1
           /\ relation_data' = data
           /\ entity_data' = entity_data
           /\ pc' = "done"
           /\ calls' = Append(calls, "ret2")
           /\ result' = IF shape = "TypeError" THEN Raised
                        ELSE IF shape = "invalid" THEN Returned(entities, << >>)
                        ELSE Returned(entities, GetItem(data, TriplesKey).items)

----------------------------------------------------------------------------
(* main and GraphBuilder *)

MaxDocs   == 2
MaxChunks == 2

Range(seq) == { seq[i] : i \in DOMAIN seq }

\* What one extractor.extract call can hand to main: an exception, nothing,
\* entities without triples, or entities with triples (two whose triples
\* survive standardization and one whose triple has an untyped endpoint).
ExtractOutcomes ==
    { Raised,
      Returned(<< >>, << >>),
      Returned(<< Entity(<< "a" >>, "AluminumAlloy") >>, << >>),
      Returned(<< Entity(<< "a" >>, "AluminumAlloy"), Entity(<< "b" >>, "MechanicalProperty") >>,
               << RawTriple(AllKeys, << "a" >>, SomeRelation, << "b" >>) >>),
      Returned(<< Entity(<< "a" >>, "AluminumAlloy") >>,
               << RawTriple(AllKeys, << "a" >>, MappedRelation, << "a" >>) >>),
      Returned(<< Entity(<< "c" >>, "Alien") >>,
               << RawTriple(AllKeys, << "d" >>, SomeRelation, << "a" >>) >>) }

\* Outcome of a call that reaches the graph store: the query or transaction
\* succeeds, fails inside the try block (logged), or driver.session() itself
\* raises, which no handler of GraphBuilder catches.
StoreOutcomes == { "ok", "failed", "session_error" }

Event(d, ev) == [doc |-> d, ev |-> ev]

\* main up to the loop: a non-empty all_texts, GraphBuilder.__init__ with or
\* without a connection, nothing processed yet.
MainInit ==
    /\ n_docs \in 1..MaxDocs
    /\ driver \in BOOLEAN
    /\ doc = 0
    /\ n_chunks = 0
    /\ chunk_i = 0
    /\ all_entities = << >>
    /\ all_triples = << >>
    /\ main_triples = << >>
    /\ mpc = "next_doc"
    /\ store = {}
    /\ last_written = {}
    /\ run_log = << >>

\* Loop head: the next document of all_texts; a text file needs one
\* extraction, a PDF one per chunk (possibly none).
NextDocument ==
    /\ mpc = "next_doc"
    /\ doc < n_docs
    /\ \E is_pdf \in BOOLEAN, n \in 0..MaxChunks :
          /\ ~is_pdf => n = 1
          /\ n_chunks' = n
    /\ doc' = doc + 1
    /\ chunk_i' = 0
    /\ all_entities' = << >>
    /\ all_triples' = << >>
    /\ mpc' = "extract"
    /\ UNCHANGED << n_docs, main_triples, driver, store, last_written, run_log >>

\* One extractor.extract call of the current document; an exception leaves
\* the loop for main's handler.
ExtractChunk(out) ==
    /\ mpc = "extract"
    /\ chunk_i < n_chunks
    /\ run_log' = Append(run_log, Event(doc, "extract"))
    /\ IF out.kind = "raised"
          THEN /\ mpc' = "finished"
               /\ UNCHANGED << chunk_i, all_entities, all_triples >>
          ELSE /\ chunk_i' = chunk_i + 1
               /\ all_entities' = all_entities \o out.entities
               /\ all_triples' = all_triples \o out.triples
               /\ UNCHANGED mpc
    /\ UNCHANGED << n_docs, doc, n_chunks, main_triples, driver, store, last_written >>

StandardizeDocument_NoSkip ==
    /\ mpc = "extract"
    /\ chunk_i = n_chunks
    /\ main_triples' = standardize(ontology, all_entities, all_triples)
    /\ mpc' = "clear"
    /\ UNCHANGED << n_docs, doc, n_chunks, chunk_i, all_entities, all_triples,
                    driver, store, last_written, run_log >>

\* After the last extraction: skip the document when no raw triple was
\* collected, otherwise standardize.
StandardizeDocument ==
    /\ mpc = "extract"
    /\ chunk_i = n_chunks
    /\ IF all_triples = << >>
          THEN /\ mpc' = "next_doc"
               /\ UNCHANGED main_triples
          ELSE /\ main_triples' = standardize(ontology, all_entities, all_triples)
               /\ mpc' = "clear"
    /\ UNCHANGED << n_docs, doc, n_chunks, chunk_i, all_entities, all_triples,
                    driver, store, last_written, run_log >>

\* GraphBuilder.clear_database: without a driver nothing is sent; otherwise
\* the delete-all query runs, and its failure is only logged.
clear_database(outcome) ==
    /\ mpc = "clear"
    /\ IF ~driver
          THEN /\ mpc' = "write"
               /\ UNCHANGED << store, run_log >>
          ELSE IF outcome = "session_error"
          THEN /\ mpc' = "finished"
               /\ UNCHANGED << store, run_log >>
          ELSE /\ run_log' = Append(run_log, Event(doc, "clear"))
               /\ store' = IF outcome = "ok" THEN {} ELSE store
               /\ mpc' = "write"
    /\ UNCHANGED << n_docs, doc, n_chunks, chunk_i, all_entities, all_triples,
                    main_triples, driver, last_written >>

\* GraphBuilder.build_graph: nothing is sent without a driver or for an empty
\* list; otherwise one write transaction merges every triple, and its
\* failure is only logged.
build_graph(outcome) ==
    /\ mpc = "write"
    /\ IF ~driver \/ main_triples = << >>
          THEN /\ mpc' = "next_doc"
               /\ UNCHANGED << store, last_written, run_log >>
          ELSE IF outcome = "session_error"
          THEN /\ mpc' = "finished"
               /\ UNCHANGED << store, last_written, run_log >>
          ELSE /\ run_log' = Append(run_log, Event(doc, "write"))
               /\ IF outcome = "ok"
                     THEN /\ store' = store \cup Range(main_triples)
                          /\ last_written' = Range(main_triples)
                     ELSE UNCHANGED << store, last_written >>
               /\ mpc' = "next_doc"
    /\ UNCHANGED << n_docs, doc, n_chunks, chunk_i, all_entities, all_triples,
                    main_triples, driver >>

\* The loop is exhausted: main falls through to the finally block.
Finish ==
    /\ mpc = "next_doc"
    /\ doc = n_docs
    /\ mpc' = "finished"
    /\ UNCHANGED << n_docs, doc, n_chunks, chunk_i, all_entities, all_triples,
                    main_triples, driver, store, last_written, run_log >>

----------------------------------------------------------------------------
(* Claims about split_pdf_to_chunks *)

RECURSIVE Flatten(_)
Flatten(ss) == IF ss = << >> THEN << >> ELSE Head(ss) \o Flatten(Tail(ss))

NonWs(str) == SelectSeq(str, LAMBDA c : ~IsSpace(c))

Ceil(n, m) == (n + m - 1) \div m

\* C4: the chunks, concatenated in order, hold exactly the non-whitespace
\* content of the document: nothing lost, duplicated or reordered.
C4_ChunksReproduceDocument ==
    cpc = "done" => NonWs(Flatten(chunks)) = NonWs(all_text)

\* C5: no returned chunk is empty or whitespace-only and none is longer than
\* max_chunk_chars.
C5_ChunksNonEmptyAndBounded ==
    cpc = "done" =>
        \A i \in DOMAIN chunks :
            /\ Strip(chunks[i]) # << >>
            /\ Len(chunks[i]) <= max_chunk_chars

\* A hard cut happened: a chunk of exactly max_chunk_chars is followed by the
\* rest of the same over-long paragraph.
C5_Witness ==
    /\ cpc = "done"
    /\ Len(Strip(all_text)) > max_chunk_chars
    /\ \E i \in DOMAIN chunks :
          /\ i < Len(chunks)
          /\ Len(chunks[i]) = max_chunk_chars
          /\ ~IsSpace(chunks[i][Len(chunks[i])])

\* No heading can match (a heading needs a newline), no paragraph break and no
\* sentence-ending marker.
NoBreakPoint(str) ==
    /\ RFind(str, << NL >>) = -1
    /\ RFind(str, << ".", " " >>) = -1
    /\ RFind(str, << FullStop >>) = -1

\* C6: a text of length n > max_chunk_chars without heading, paragraph break
\* or sentence-ending marker is returned as ceil(n / max_chunk_chars) chunks,
\* all but the last of length max_chunk_chars, which together are the text.
C6_HardCutChunks ==
    (cpc = "done" /\ all_text = Strip(all_text)
       /\ Len(all_text) > max_chunk_chars /\ NoBreakPoint(all_text)) =>
        /\ Len(chunks) = Ceil(Len(all_text), max_chunk_chars)
        /\ \A i \in 1..(Len(chunks) - 1) : Len(chunks[i]) = max_chunk_chars
        /\ Flatten(chunks) = all_text

\* A sentence-ending marker starts at 0-based offset i of str.
MarkerAt(str, i) ==
    \/ str[i + 1] = FullStop
    \/ str[i + 1] = NL
    \/ (str[i + 1] = "." /\ i + 2 <= Len(str) /\ str[i + 2] = " ")

\* The document is one over-long paragraph that starts with its only heading.
OneLongParagraph ==
    LET str == Strip(all_text)
    IN  /\ cpc = "done"
        /\ HeadingStarts(str, 0) = << 0 >>
        /\ SplitParas(str) = << str >>
        /\ Len(str) > max_chunk_chars

\* C13: for a paragraph longer than max_chunk_chars, if its prefix of length
\* max_chunk_chars holds a sentence-ending marker (period+space, full-width
\* period or newline) with at least 20 characters before it, the first chunk
\* ends at the last such marker; the whole prefix is emitted only when the
\* prefix holds no such marker.
C13_BreakAtLastMarkerWithMargin ==
    OneLongParagraph =>
        LET str    == Strip(all_text)
            prefix == Slice(str, 0, max_chunk_chars)
            good   == { i \in 0..(Len(prefix) - 1) : MarkerAt(prefix, i) /\ i >= MinTail }
        IN  /\ good # {} =>
                chunks[1] = Slice(str, 0, (CHOOSE i \in good : \A j \in good : j <= i) + 1)
            /\ chunks[1] = prefix => good = {}

----------------------------------------------------------------------------
(* Claims about the Standardizer *)

SMap == ontology.standardization_map

\* Entry i lists a synonym equal to name up to letter case.
Lists(i, name) == \E k \in DOMAIN SMap[i][2] : Lower(SMap[i][2][k]) = Lower(name)

IsCanonical(name) == \E i \in DOMAIN SMap : SMap[i][1] = name

\* C7: a synonym listed under a canonical name, in any letter case, resolves
\* to exactly that canonical name (whatever else lists it).
C7_SynonymResolvesToItsCanonical ==
    std_op = "name" =>
        \A i \in DOMAIN SMap : Lists(i, std_arg) => std_name = SMap[i][1]

\* C7 (amended): a synonym listed under a canonical name, in any letter case,
\* resolves to that canonical name unless a later entry of standardization_map
\* lists a synonym equal to it up to case; the last entry listing it wins.
C7_SynonymResolvesToLastListing ==
    std_op = "name" =>
        \A i \in DOMAIN SMap :
            ( Lists(i, std_arg) /\ \A j \in DOMAIN SMap : j > i => ~Lists(j, std_arg) )
                => std_name = SMap[i][1]

\* A synonym listed under two canonical names, looked up in another letter case.
C7_Witness ==
    /\ std_op = "name"
    /\ \E i, j \in DOMAIN SMap :
          /\ i < j
          /\ Lists(i, std_arg) /\ Lists(j, std_arg)
          /\ \A k \in DOMAIN SMap[j][2] : SMap[j][2][k] # std_arg
          /\ std_name = SMap[j][1]

\* C8: get_standard_name is idempotent on every canonical name.
C8_IdempotentOnCanonical ==
    (std_op = "name" /\ IsCanonical(std_arg)) => std_name2 = std_name

\* No canonical name is, up to letter case, a synonym listed under another one.
NoCanonicalListedElsewhere ==
    \A i, j \in DOMAIN SMap : i # j => ~Lists(j, SMap[i][1])

\* C8 (amended): when no canonical name is listed, up to case, as a synonym of
\* a different canonical name, every canonical name is its own standard name,
\* so get_standard_name is idempotent on it.
C8_IdempotentWhenNotListedElsewhere ==
    (std_op = "name" /\ IsCanonical(std_arg) /\ NoCanonicalListedElsewhere) =>
        /\ std_name = std_arg
        /\ std_name2 = std_name

\* A canonical name found in the reverse map (listed under itself in lower case).
C8_Witness ==
    /\ std_op = "name"
    /\ IsCanonical(std_arg)
    /\ NoCanonicalListedElsewhere
    /\ \E i \in DOMAIN SMap : Lists(i, std_arg)
    /\ Lower(std_arg) # std_arg
    /\ std_name2 = std_name

StdName(name) == get_standard_name(ontology, name)

\* A field is missing or empty.
Malformed(triple) ==
    \E k \in AllKeys : k \notin triple.keys \/ triple[k] = << >>

\* Some supplied entity has the same standardized name.
NamedByEntity(name) ==
    \E i \in DOMAIN in_entities : StdName(in_entities[i].name) = StdName(name)

\* The type the entity list gives a name: that of the last entity with the
\* same standardized name.
LastTypeOf(name) ==
    LET idx == { i \in DOMAIN in_entities : StdName(in_entities[i].name) = StdName(name) }
    IN  in_entities[CHOOSE i \in idx : \A j \in idx : j <= i].type

\* The output is exactly one triple per kept raw triple, in input order.
OutputIs(kept) ==
    /\ Len(standardized_triples) = Len(kept)
    /\ \A k \in DOMAIN kept :
          /\ standardized_triples[k].subject.name = StdName(kept[k].subject)
          /\ standardized_triples[k].object.name = StdName(kept[k].object)
          /\ standardized_triples[k].relation = standardize_relation(kept[k].relation)

Typable(name) == NamedByEntity(name) /\ LastTypeOf(name) # ""

C10_EndpointsTypedFromNodeLabels ==
    std_op = "standardize" =>
        \A k \in DOMAIN standardized_triples :
            \A end \in { standardized_triples[k].subject, standardized_triples[k].object } :
                /\ end.type # ""
                /\ end.type \in ontology.node_labels
                /\ \E i \in DOMAIN in_entities :
                      /\ in_entities[i].type = end.type
                      /\ StdName(in_entities[i].name) = end.name

----------------------------------------------------------------------------
(* Claims about KnowledgeExtractor.extract *)

\* The parsed value is an object with an array under `key`.
HasArrayUnder(v, key) ==
    /\ v.t = "obj"
    /\ \E i \in DOMAIN v.o : v.o[i][1] = key
    /\ GetItem(v, key).t = "arr"

Phase1Failed == resp1.kind # "json" \/ ~HasArrayUnder(resp1.v, EntitiesKey)
Phase2Failed == resp2.kind # "json" \/ ~HasArrayUnder(resp2.v, TriplesKey)

Count(log, ev) == Cardinality({ i \in DOMAIN log : log[i] = ev })
Pos(log, ev)   == CHOOSE i \in DOMAIN log : log[i] = ev

\* C1: whenever the Phase 1 call failed (error, timeout, invalid JSON, or a JSON
\* value without an 'entities' array), extract has returned ([], []) without
\* raising and no Phase 2 call was made.
C1_Phase1FailureReturnsEmpty ==
    (pc = "done" /\ Phase1Failed) =>
        /\ result = Returned(<< >>, << >>)
        /\ Count(calls, "call2") = 0

\* C2: whenever Phase 1 gave a non-empty entity list and the Phase 2 call failed
\* or its parsed result has no top-level 'triples' array, extract has returned
\* (Phase 1 entities, []).
C2_Phase2FailureKeepsEntities ==
    (pc = "done" /\ Count(calls, "ret2") = 1 /\ Phase2Failed) =>
        result = Returned(GetItem(resp1.v, EntitiesKey).items, << >>)

\* C3: in every invocation at most two model calls are made, each phase at most
\* once, Phase 1 has completed before Phase 2 starts, and once Phase 1 has
\* completed the Phase 2 call has been made iff Phase 1 produced an 'entities'
\* array with at least one element.
C3_TwoSequentialCalls ==
    /\ Count(calls, "call1") + Count(calls, "call2") <= 2
    /\ Count(calls, "call1") <= 1 /\ Count(calls, "call2") <= 1
    /\ Count(calls, "ret1") <= 1 /\ Count(calls, "ret2") <= 1
    /\ pc # "idle" => Count(calls, "call1") = 1
    /\ Count(calls, "call2") = 1 =>
          /\ Count(calls, "ret1") = 1
          /\ Pos(calls, "call1") < Pos(calls, "ret1")
          /\ Pos(calls, "ret1") < Pos(calls, "call2")
    /\ Count(calls, "ret1") = 1 =>
          ( Count(calls, "call2") = 1
              <=> ( ~Phase1Failed /\ GetItem(resp1.v, EntitiesKey).items # << >> ) )

\* An invocation that made both calls and returned entities and triples.
C3_Witness ==
    /\ pc = "done"
    /\ calls = << "call1", "ret1", "call2", "ret2" >>
    /\ result.kind = "returned"
    /\ result.entities # << >>
    /\ result.triples # << >>

----------------------------------------------------------------------------
(* Claims about main and GraphBuilder *)

StoreCalls == { "clear", "write" }

\* The documents appear in run_log one at a time, in enumeration order.
OneDocumentAtATime ==
    \A i, j \in DOMAIN run_log : i < j => run_log[i].doc <= run_log[j].doc

\* No extraction of a document follows a graph-store call for it.
ExtractionsBeforeStoreCalls ==
    \A i, j \in DOMAIN run_log :
        (i < j /\ run_log[i].doc = run_log[j].doc /\ run_log[i].ev \in StoreCalls)
            => run_log[j].ev # "extract"

\* Every write comes right after a clear issued for the same document.
WriteRightAfterClear ==
    \A j \in DOMAIN run_log :
        run_log[j].ev = "write" =>
            /\ j > 1
            /\ run_log[j - 1] = Event(run_log[j].doc, "clear")

\* A graph-store call for the current document means that its extractions
\* are complete and collected at least one raw triple.
NoStoreCallWithoutTriples ==
    (\E i \in DOMAIN run_log : run_log[i].doc = doc /\ run_log[i].ev \in StoreCalls)
        => (chunk_i = n_chunks /\ all_triples # << >>)

\* C11: documents are processed one at a time in enumeration order; all
\* extractions of a document precede every graph-store call for it; every
\* write is immediately preceded by a clear issued for the same document; a
\* document whose accumulated raw triple list is empty causes neither a clear
\* nor a write.
C11_OrchestratorSequencing ==
    /\ OneDocumentAtATime
    /\ ExtractionsBeforeStoreCalls
    /\ WriteRightAfterClear
    /\ NoStoreCallWithoutTriples

\* The run is over; its first document was skipped for want of raw triples
\* after extractions that returned, and its second went through two
\* extractions, a clear and a write.
C11_Witness ==
    /\ mpc = "finished"
    /\ run_log = << Event(1, "extract"), Event(2, "extract"), Event(2, "extract"),
                    Event(2, "clear"), Event(2, "write") >>

\* C12: at the end of every run over two or more documents, whatever the
\* outcomes of the model calls and of the graph-store calls, the store holds
\* only the triples of the last document whose write succeeded; nothing
\* written for an earlier document remains.
C12_StoreHoldsOnlyLastDocument ==
    (mpc = "finished" /\ n_docs >= 2) => store \subseteq last_written

----------------------------------------------------------------------------
ChunkIdle ==
    /\ all_text = << >>
    /\ max_chunk_chars = 1
    /\ chunks = << >>
    /\ cpc = "done"

StdIdle ==
    /\ ontology = [node_labels |-> NodeLabels, standardization_map |-> << >>]
    /\ StdFresh

\* The orchestrator before main is entered.
MainIdle ==
    /\ n_docs = 1
    /\ driver = FALSE
    /\ doc = 0
    /\ n_chunks = 0
    /\ chunk_i = 0
    /\ all_entities = << >>
    /\ all_triples = << >>
    /\ main_triples = << >>
    /\ mpc = "finished"
    /\ store = {}
    /\ last_written = {}
    /\ run_log = << >>

Init == ExtractInit /\ ChunkIdle /\ StdIdle /\ MainIdle

Next ==
    \/ ExtractStart /\ UNCHANGED << chunkVars, stdVars, mainVars >>
    \/ \E resp \in Responses : Phase1Return(resp) /\ UNCHANGED << chunkVars, stdVars, mainVars >>
    \/ \E resp \in Responses : Phase2Return(resp) /\ UNCHANGED << chunkVars, stdVars, mainVars >>

Spec == Init /\ [][Next]_vars

InitChunk == ExtractInit /\ ChunkInit /\ StdIdle /\ MainIdle

NextChunk == SplitDocument /\ UNCHANGED << extractVars, stdVars, mainVars >>

SpecChunk == InitChunk /\ [][NextChunk]_vars

InitName == ExtractInit /\ ChunkIdle /\ NameInit /\ MainIdle

NextName ==
    /\ std_op = "none"
    /\ \E name \in Names : GetStandardName(name) /\ UNCHANGED << extractVars, chunkVars, mainVars >>

SpecName == InitName /\ [][NextName]_vars

InitStd == ExtractInit /\ ChunkIdle /\ StdInit /\ MainIdle

NextStd ==
    /\ std_op = "none"
    /\ \E entities \in SeqsUpTo(EntityPool, MaxEntities), triples \in SeqsUpTo(TriplePool, MaxTriples) :
          Standardize(entities, triples) /\ UNCHANGED << extractVars, chunkVars, mainVars >>

SpecStd == InitStd /\ [][NextStd]_vars

InitMain == ExtractInit /\ ChunkIdle /\ StdIdle /\ MainInit

NextMain ==
    \/ NextDocument /\ UNCHANGED << extractVars, chunkVars, stdVars >>
    \/ \E out \in ExtractOutcomes : ExtractChunk(out) /\ UNCHANGED << extractVars, chunkVars, stdVars >>
    \/ StandardizeDocument /\ UNCHANGED << extractVars, chunkVars, stdVars >>
    \/ \E outcome \in StoreOutcomes : clear_database(outcome) /\ UNCHANGED << extractVars, chunkVars, stdVars >>
    \/ \E outcome \in StoreOutcomes : build_graph(outcome) /\ UNCHANGED << extractVars, chunkVars, stdVars >>
    \/ Finish /\ UNCHANGED << extractVars, chunkVars, stdVars >>

SpecMain == InitMain /\ [][NextMain]_vars

====
